---- MODULE Spec2Model ----
(***************************************************************************)
(* Intergenerational wealth simulation (wealth_model): the consumption     *)
(* function of mpc.py, the Person life-cycle of simulation.py, the         *)
(* run_simulation driver and calculate_rank_statistics.                    *)
(*                                                                         *)
(* Numbers.  Money is an integer number of dollars; every product with a   *)
(* fractional factor is rounded down to a whole dollar, the way a float    *)
(* operation rounds to a representable value.  The IEEE special values the *)
(* code can produce are kept: NaN, Inf and NegInf are distinguished        *)
(* values and every arithmetic operator below propagates them as numpy     *)
(* does.  Ranks are exact rationals <<num, den>>; <<0, 0>> is the NaN that *)
(* 0/0 yields.                                                             *)
(***************************************************************************)
EXTENDS Integers, Sequences, FiniteSets

VARIABLES
    pc,                 \* position in the program
    n_people,           \* run_simulation argument
    mpc_params,         \* run_simulation argument
    parent_wealth,      \* run_simulation local, one entry per individual
    parent_ranks,       \* run_simulation local
    children,           \* run_simulation local: the Person objects
    will_get_bequest,   \* run_simulation local
    death_ages,         \* run_simulation local
    bequests,           \* run_simulation local
    year,               \* outer loop variable of run_simulation
    i,                  \* inner loop variable of run_simulation (1-based here)
    bequest_ranks,      \* returned by run_simulation
    wealth_ranks,       \* returned by run_simulation
    stats,              \* returned by calculate_rank_statistics
    n_added,            \* history: how often line 106 ran for each individual
    n_draws             \* history: yearly draws so far that were not the median

vars == <<pc, n_people, mpc_params, parent_wealth, parent_ranks, children,
          will_get_bequest, death_ages, bequests, year, i, bequest_ranks,
          wealth_ranks, stats, n_added, n_draws>>

----------------------------------------------------------------------------
(* constants.py; fractional constants are kept as scaled integers *)

BASE_INCOME == 50000
INCOME_GROWTH_RATE == 2              \* percent
PARENT_WEALTH_EFFECT == 2            \* tenths
RETIREMENT_INCOME_RATIO == 4         \* tenths
RETURN_MEAN == 4                     \* percent
MPC_BASE == 6                        \* tenths
MPC_REFERENCE_INCOME == 35000
MPC_ELASTICITY == -7                 \* tenths
BORROWING_LIMIT_WEALTH_SHARE == 1    \* tenths
CHILD_START_AGE == 25
PARENT_START_AGE == 50
RETIREMENT_AGE == 65
BEQUEST_AGE_MIN == 30
BEQUEST_AGE_MAX == 60
NO_BEQUEST_PROB == 4                 \* tenths
WEALTH_SCALE == 20
N_YEARS == 60                        \* n_years of run_simulation
N_BINS == 100                        \* default n_bins of calculate_rank_statistics
RANK_FLOOR == 4                      \* tenths: the 0.4 of line 116
RANK_SPAN == 6                       \* tenths: the 0.6 of line 116

----------------------------------------------------------------------------
(* bounds of the model *)

MaxPeople == 3      \* population sizes -1 .. MaxPeople are explored
MaxDraws == 1       \* yearly draws of one run that may leave the median

----------------------------------------------------------------------------
(* IEEE special values and the arithmetic that propagates them *)

Inf == 2 * 1000000000
NegInf == 0 - Inf
NaN == 0 - (Inf + 1)

IsFinite(x) == x # NaN /\ x # Inf /\ x # NegInf

Neg(x) == IF x = NaN THEN NaN
          ELSE IF x = Inf THEN NegInf
          ELSE IF x = NegInf THEN Inf
          ELSE 0 - x

Add(x, y) ==
    IF x = NaN \/ y = NaN THEN NaN
    ELSE IF x = Inf THEN (IF y = NegInf THEN NaN ELSE Inf)
    ELSE IF x = NegInf THEN (IF y = Inf THEN NaN ELSE NegInf)
    ELSE IF y = Inf \/ y = NegInf THEN y
    ELSE x + y

Sub(x, y) == Add(x, Neg(y))

\* x > y and x >= y as IEEE comparisons: false whenever an operand is NaN
Gt(x, y) == x # NaN /\ y # NaN /\ x > y
Ge(x, y) == x # NaN /\ y # NaN /\ x >= y

\* x * p / q for a finite factor p/q (q > 0)
Times(x, p, q) ==
    IF x = NaN THEN NaN
    ELSE IF x = Inf \/ x = NegInf
         THEN (IF p = 0 THEN NaN ELSE IF p > 0 THEN x ELSE Neg(x))
    ELSE (x * p) \div q

\* np.minimum: NaN if either operand is NaN
Minimum(x, y) == IF x = NaN \/ y = NaN THEN NaN ELSE IF x <= y THEN x ELSE y

----------------------------------------------------------------------------
(* fixed-point helpers for np.power and the division by reference_income *)

XScale == 10 * 100        \* scaled_income and np.power results are in 1/XScale
GScale == 100 * 100       \* growth_factor is in 1/GScale

RECURSIVE SqrtFrom(_, _)
\* the largest y with y*y <= n, by Newton's iteration from a guess g >= y, n > 0
SqrtFrom(n, g) ==
    LET h == (g + n \div g) \div 2
    IN IF h >= g THEN g ELSE SqrtFrom(n, h)

\* square root of a finite x >= 0 given in 1/XScale, in 1/XScale
Root(x) == IF x = 0 THEN 0 ELSE SqrtFrom(x * XScale, IF x > XScale THEN x ELSE XScale)

\* x ** 0.3 for finite x >= 0: 0.3 = 1/4 + 1/32 + 1/64 + ... (binary 0.0100110011...),
\* cut after the third term
PowerThreeTenths(x) ==
    LET r4 == Root(Root(x))
        r32 == Root(Root(Root(r4)))
        r64 == Root(r32)
    IN (((r4 * r32) \div XScale) * r64) \div XScale

\* np.power(x, alpha) with alpha in tenths; x and the result in 1/XScale
Power(x, alpha) ==
    IF alpha = 0 THEN XScale                     \* pow(x, 0) is 1 for every x, NaN too
    ELSE IF x = NaN THEN NaN
    ELSE IF x = Inf \/ x = NegInf THEN Inf       \* alpha > 0 and no odd integer
    ELSE IF x < 0 THEN NaN                       \* negative base, fractional exponent
    ELSE PowerThreeTenths(x)

\* x / y of numpy floats, in 1/XScale: no exception on y = 0
Divide(x, y) ==
    IF x = NaN THEN NaN
    ELSE IF y = 0 THEN (IF x = 0 THEN NaN ELSE IF x > 0 THEN Inf ELSE NegInf)
    ELSE IF x = Inf \/ x = NegInf THEN (IF y > 0 THEN x ELSE Neg(x))
    ELSE (x * XScale) \div y

----------------------------------------------------------------------------
(* mpc.py *)

\* base_mpc and elasticity in tenths
calculate_consumption(income, base_mpc, reference_income, elasticity) ==
    LET alpha == elasticity + 10
        scaled_income == Divide(income, reference_income)
        numerator == Times(Power(scaled_income, alpha),
                           (base_mpc * reference_income) \div 10, XScale)
    IN IF alpha = 0
       THEN (IF numerator = NaN \/ numerator = 0 THEN NaN
             ELSE IF Gt(numerator, 0) THEN Inf ELSE NegInf)
       ELSE IF alpha > 0 THEN Times(numerator, 10, alpha)
       ELSE Times(numerator, -10, 0 - alpha)

----------------------------------------------------------------------------
(* simulation.py: class Person *)

None == <<>>

\* Person.__init__; parent_wealth_rank is None or a rational <<num, den>>
Person(age, initial_wealth, parent_wealth_rank) ==
    [age |-> age,
     wealth |-> initial_wealth,
     parent_wealth_rank |-> parent_wealth_rank,
     wealth_history |-> <<initial_wealth>>,
     labor_income_history |-> <<>>,
     capital_income_history |-> <<>>,
     consumption_history |-> <<>>,
     base_labor_income |->
        IF parent_wealth_rank # None
        THEN BASE_INCOME + (BASE_INCOME * PARENT_WEALTH_EFFECT * parent_wealth_rank[1])
                               \div (10 * parent_wealth_rank[2])
        ELSE BASE_INCOME]

RECURSIVE Compound(_)
Compound(years) ==
    IF years = 0 THEN GScale
    ELSE (Compound(years - 1) * (100 + INCOME_GROWTH_RATE)) \div 100

GrowthTable == [years \in 0 .. N_YEARS |-> Compound(years)]

\* line 33: (1 + INCOME_GROWTH_RATE) ** years_worked, in 1/GScale
growth_factor(years_worked) == GrowthTable[years_worked]

\* Person.get_labor_income; lognormal is the draw of np.random.lognormal, in percent
get_labor_income(self, years_worked, lognormal) ==
    IF self.age >= RETIREMENT_AGE
    THEN (self.base_labor_income * RETIREMENT_INCOME_RATIO) \div 10
    ELSE (((self.base_labor_income * growth_factor(years_worked)) \div GScale)
             * lognormal) \div 100

\* Person.get_capital_income; normal is the draw of np.random.normal, in percent
get_capital_income(self, normal) == Times(self.wealth, normal, 100)

DefaultParams ==
    [base_mpc |-> MPC_BASE, reference_income |-> MPC_REFERENCE_INCOME,
     elasticity |-> MPC_ELASTICITY]

\* Consumption without the cap of lines 66-71
ConsumptionUncapped(self, total_income, params) ==
    LET p == IF params = None THEN DefaultParams ELSE params[1]
    IN calculate_consumption(total_income, p.base_mpc, p.reference_income,
                             p.elasticity)

\* the consumption simulate_year settles on (lines 47-71), given the two incomes
Consumption(self, total_income, params) ==
    LET p == IF params = None THEN DefaultParams ELSE params[1]
        raw_consumption ==
            calculate_consumption(total_income, p.base_mpc, p.reference_income,
                                  p.elasticity)
        borrowing_available ==
            IF Gt(self.wealth, 0)
            THEN Times(self.wealth, BORROWING_LIMIT_WEALTH_SHARE, 10) ELSE 0
        max_consumption == Add(total_income, borrowing_available)
    IN Minimum(raw_consumption, max_consumption)

\* simulate_year keeping only the latest wealth instead of appending it
simulate_year_overwriting(self, years_worked, params, lognormal, normal) ==
    LET labor_income == get_labor_income(self, years_worked, lognormal)
        capital_income == get_capital_income(self, normal)
        total_income == Add(labor_income, capital_income)
        consumption == Consumption(self, total_income, params)
        wealth == Add(self.wealth, Sub(total_income, consumption))
    IN [self EXCEPT
          !.wealth = wealth,
          !.wealth_history = <<wealth>>,
          !.labor_income_history = Append(@, labor_income),
          !.capital_income_history = Append(@, capital_income),
          !.consumption_history = Append(@, consumption),
          !.age = @ + 1]

\* Person.simulate_year: the Person after the call
simulate_year(self, years_worked, params, lognormal, normal) ==
    LET labor_income == get_labor_income(self, years_worked, lognormal)
        capital_income == get_capital_income(self, normal)
        total_income == Add(labor_income, capital_income)
        consumption == Consumption(self, total_income, params)
        wealth == Add(self.wealth, Sub(total_income, consumption))
    IN [self EXCEPT
          !.wealth = wealth,
          !.wealth_history = Append(@, wealth),
          !.labor_income_history = Append(@, labor_income),
          !.capital_income_history = Append(@, capital_income),
          !.consumption_history = Append(@, consumption),
          !.age = @ + 1]

----------------------------------------------------------------------------
(* rationals <<num, den>> with den > 0, and the NaN <<0, 0>> *)

RatNaN == <<0, 0>>
RatZero == <<0, 1>>

RECURSIVE Gcd(_, _)
Gcd(m, n) == IF n = 0 THEN m ELSE Gcd(n, m % n)

Abs(n) == IF n < 0 THEN 0 - n ELSE n

\* num/den in lowest terms (den > 0)
Rat(num, den) == LET g == Gcd(Abs(num), den) IN <<num \div g, den \div g>>

RatLe(a, b) == a # RatNaN /\ b # RatNaN /\ a[1] * b[2] <= b[1] * a[2]
RatLt(a, b) == a # RatNaN /\ b # RatNaN /\ a[1] * b[2] < b[1] * a[2]
RatAdd(a, b) == IF a = RatNaN \/ b = RatNaN THEN RatNaN
                ELSE Rat(a[1] * b[2] + b[1] * a[2], a[2] * b[2])
RatSub(a, b) == IF b = RatNaN THEN RatNaN ELSE RatAdd(a, <<0 - b[1], b[2]>>)
RatMul(a, b) == IF a = RatNaN \/ b = RatNaN THEN RatNaN
                ELSE Rat(a[1] * b[1], a[2] * b[2])
\* a / n for an integer n: 0/0 and x/0 do not raise in numpy; only 0/0 arises here
RatDivInt(a, n) == IF a = RatNaN \/ n = 0 THEN RatNaN
                   ELSE IF n > 0 THEN Rat(a[1], a[2] * n)
                   ELSE Rat(0 - a[1], a[2] * (0 - n))

----------------------------------------------------------------------------
(* scipy.stats.rankdata, method "average"; a NaN in the input makes every  *)
(* rank NaN (nan_policy "propagate")                                       *)

\* twice the average rank of a[k] among the entries of a with index in S
TwiceRank(a, S, k) ==
    2 * Cardinality({j \in S : a[j] < a[k]}) + Cardinality({j \in S : a[j] = a[k]}) + 1

rankdata(a, S, k) ==
    IF \E j \in S : a[j] = NaN THEN RatNaN ELSE Rat(TwiceRank(a, S, k), 2)

----------------------------------------------------------------------------
(* the draws of the random source: small sets of outcomes *)

\* What is drawn for one individual before the years start: pareto is the
\* outcome of pareto.rvs(PARETO_SHAPE) (>= 1), death_age that of
\* randint(BEQUEST_AGE_MIN, BEQUEST_AGE_MAX + 1), share that of
\* np.random.random() in tenths (0 is an outcome, 1 is not).  Four triples
\* in which every pair of outcomes of two draws occurs.
SetupDraws ==
    {[pareto |-> 1, death_age |-> BEQUEST_AGE_MIN, share |-> 5],
     [pareto |-> 2, death_age |-> BEQUEST_AGE_MAX, share |-> 5],
     [pareto |-> 2, death_age |-> BEQUEST_AGE_MIN, share |-> 0],
     [pareto |-> 1, death_age |-> BEQUEST_AGE_MAX, share |-> 0]}

\* every outcome of randint(BEQUEST_AGE_MIN, BEQUEST_AGE_MAX + 1), with two
\* outcomes of each of the other two draws
AllSetupDraws ==
    [pareto : {1, 2}, death_age : BEQUEST_AGE_MIN .. BEQUEST_AGE_MAX, share : {0, 5}]

LognormalMedian == 100
LognormalDraws == {LognormalMedian}                \* np.random.lognormal, percent
NormalDraws == {RETURN_MEAN, -10}                  \* np.random.normal, percent
BinCounts == {5, N_BINS}                           \* n_bins

\* the mpc_params a caller passes: None, or one dict
ParamChoices ==
    {None,
     <<[base_mpc |-> MPC_BASE, reference_income |-> MPC_REFERENCE_INCOME,
        elasticity |-> -10]>>,
     <<[base_mpc |-> MPC_BASE, reference_income |-> 0,
        elasticity |-> MPC_ELASTICITY]>>}

----------------------------------------------------------------------------
(* simulation.py: run_simulation *)

Init ==
    /\ pc = "call"
    /\ n_people \in -1 .. MaxPeople
    /\ mpc_params \in ParamChoices
    /\ parent_wealth = <<>>
    /\ parent_ranks = <<>>
    /\ children = <<>>
    /\ will_get_bequest = <<>>
    /\ death_ages = <<>>
    /\ bequests = <<>>
    /\ year = 0
    /\ i = 1
    /\ bequest_ranks = <<>>
    /\ wealth_ranks = <<>>
    /\ stats = <<>>
    /\ n_added = <<>>
    /\ n_draws = 0

\* line 88 with a negative size: numpy raises ValueError
NegativeSize ==
    /\ pc = "call"
    /\ n_people < 0
    /\ pc' = "raised"
    /\ UNCHANGED <<n_people, mpc_params, parent_wealth, parent_ranks, children,
                   will_get_bequest, death_ages, bequests, year, i,
                   bequest_ranks, wealth_ranks, stats, n_added, n_draws>>

\* line 88
ParentWealth(pareto) == [k \in DOMAIN pareto |-> pareto[k] * WEALTH_SCALE * BASE_INCOME]

\* line 96
DeathAges(randint) == randint

\* line 89
ParentRanks(wealth) ==
    [k \in DOMAIN wealth |-> RatDivInt(rankdata(wealth, DOMAIN wealth, k), Len(wealth))]

\* line 92 with the children created at the parents' starting age
ChildrenAtParentAge(ranks) ==
    [k \in DOMAIN ranks |-> Person(PARENT_START_AGE, 0, ranks[k])]

\* line 92
Children(ranks) == [k \in DOMAIN ranks |-> Person(CHILD_START_AGE, 0, ranks[k])]

\* line 95
WillGetBequest(ranks) ==
    [k \in DOMAIN ranks |-> RatLe(<<NO_BEQUEST_PROB, 10>>, ranks[k])]

\* line 98
Bequests(will, wealth, shares) ==
    [k \in DOMAIN wealth |-> IF will[k] THEN (wealth[k] * shares[k]) \div 10 ELSE 0]

\* lines 88-98 (what is drawn for each individual comes from the set given)
Setup(draws) ==
    /\ pc = "call"
    /\ n_people >= 0
    /\ \E drawn \in [1 .. n_people -> draws] :
          /\ parent_wealth' = ParentWealth([k \in 1 .. n_people |-> drawn[k].pareto])
          /\ parent_ranks' = ParentRanks(parent_wealth')
          /\ children' = Children(parent_ranks')
          /\ will_get_bequest' = WillGetBequest(parent_ranks')
          /\ death_ages' = DeathAges([k \in 1 .. n_people |-> drawn[k].death_age])
          /\ bequests' = Bequests(will_get_bequest', parent_wealth',
                                  [k \in 1 .. n_people |-> drawn[k].share])
    /\ n_added' = [k \in 1 .. n_people |-> 0]
    /\ year' = 0
    /\ i' = 1
    /\ pc' = "simulate"
    /\ UNCHANGED <<n_people, mpc_params, bequest_ranks, wealth_ranks, stats, n_draws>>

\* line 105 with >= for ==
ParentDiesOrDied(child, k) == child.age >= death_ages[k]

\* lines 105-106: whether the bequest is added this year
ParentDies(child, k) == child.age = death_ages[k]

\* lines 105-106
AddBequest(child, k) ==
    IF ParentDies(child, k) THEN [child EXCEPT !.wealth = Add(@, bequests[k])] ELSE child

\* lines 105-108 over a list whose entries are all the same Person object
UpdateChildAliased(people, k, lognormal, normal) ==
    [j \in DOMAIN people |->
        simulate_year(AddBequest(people[k], k), year, mpc_params, lognormal, normal)]

\* lines 105-108: what one pass of the inner loop, for child k, does to the
\* list of Persons
UpdateChild(people, k, lognormal, normal) ==
    [people EXCEPT
       ![k] = simulate_year(AddBequest(people[k], k), year, mpc_params,
                            lognormal, normal)]

\* lines 102-108: one pass of the inner loop, for child i in the current year
\* (the yearly draws come from the sets given)
SimulateChild(lognormals, normals) ==
    /\ pc = "simulate"
    /\ year < N_YEARS
    /\ i <= n_people
    /\ \E lognormal \in lognormals, normal \in normals :
          LET median == lognormal = LognormalMedian /\ normal = RETURN_MEAN
          IN /\ ~median => n_draws < MaxDraws
             /\ n_draws' = IF median THEN n_draws ELSE n_draws + 1
             /\ children' = UpdateChild(children, i, lognormal, normal)
    /\ n_added' = IF ParentDies(children[i], i)
                  THEN [n_added EXCEPT ![i] = @ + 1] ELSE n_added
    /\ IF i < n_people
       THEN i' = i + 1 /\ year' = year
       ELSE i' = 1 /\ year' = year + 1
    /\ UNCHANGED <<pc, n_people, mpc_params, parent_wealth, parent_ranks,
                   will_get_bequest, death_ages, bequests, bequest_ranks,
                   wealth_ranks, stats>>

\* lines 102-103 with no children: the year passes and nothing else happens
EmptyYear ==
    /\ pc = "simulate"
    /\ year < N_YEARS
    /\ n_people = 0
    /\ year' = year + 1
    /\ UNCHANGED <<pc, n_people, mpc_params, parent_wealth, parent_ranks, children,
                   will_get_bequest, death_ages, bequests, i, bequest_ranks,
                   wealth_ranks, stats, n_added, n_draws>>

\* lines 111-116 with the positive bequests ranked among all bequests
BequestRanksAmongAll(b) ==
    [k \in DOMAIN b |->
        IF b[k] > 0
        THEN RatAdd(<<RANK_FLOOR, 10>>,
                    RatMul(<<RANK_SPAN, 10>>,
                           RatDivInt(rankdata(b, DOMAIN b, k), Len(b))))
        ELSE RatZero]

\* lines 111-116
BequestRanks(b) ==
    LET positive_bequest_mask == {k \in DOMAIN b : b[k] > 0}
        n_positive == Cardinality(positive_bequest_mask)
    IN [k \in DOMAIN b |->
          IF n_positive > 0 /\ k \in positive_bequest_mask
          THEN LET positive_rank ==
                       RatDivInt(rankdata(b, positive_bequest_mask, k), n_positive)
               IN RatAdd(<<RANK_FLOOR, 10>>, RatMul(<<RANK_SPAN, 10>>, positive_rank))
          ELSE RatZero]

\* lines 118-119
WealthRanks(people) ==
    LET final_wealth == [k \in DOMAIN people |->
                            people[k].wealth_history[Len(people[k].wealth_history)]]
    IN [k \in DOMAIN people |->
          RatDivInt(RatSub(rankdata(final_wealth, DOMAIN people, k), <<1, 1>>),
                    Len(people) - 1)]

\* lines 110-121
FinalRankings ==
    /\ pc = "simulate"
    /\ year = N_YEARS
    /\ bequest_ranks' = BequestRanks(bequests)
    /\ wealth_ranks' = WealthRanks(children)
    /\ pc' = "returned"
    /\ UNCHANGED <<n_people, mpc_params, parent_wealth, parent_ranks, children,
                   will_get_bequest, death_ages, bequests, year, i, stats,
                   n_added, n_draws>>

----------------------------------------------------------------------------
(* simulation.py: calculate_rank_statistics *)

RECURSIVE RatSum(_, _)
\* the sum of a[k] over the indices k in S
RatSum(a, S) ==
    IF S = {} THEN RatZero
    ELSE LET k == CHOOSE x \in S : TRUE
         IN RatAdd(a[k], RatSum(a, S \ {k}))

\* np.mean over the selected entries
Mean(a, S) == RatDivInt(RatSum(a, S), Cardinality(S))

\* np.std over the selected entries, squared (the root of a rational is not one)
StdSquared(a, S) ==
    LET m == Mean(a, S)
        d == [k \in S |-> RatMul(RatSub(a[k], m), RatSub(a[k], m))]
    IN RatDivInt(RatSum(d, S), Cardinality(S))

\* line 126: bins[b] of np.linspace(0, 1, n_bins + 1), b = 0 .. n_bins
Bin(b, n_bins) == Rat(b, n_bins)

\* line 133: the individuals selected for bin b (1-based: it spans bins[b-1], bins[b])
Mask(ranks, b, n_bins) ==
    {k \in DOMAIN ranks : RatLe(Bin(b - 1, n_bins), ranks[k])
                          /\ RatLt(ranks[k], Bin(b, n_bins))}

\* lines 124-141; mask is kept beside the three returned arrays
RankStatistics(b_ranks, w_ranks, n_bins) ==
    [n_bins |-> n_bins,
     mask |-> [b \in 1 .. n_bins |-> Mask(b_ranks, b, n_bins)],
     bin_centers |-> [b \in 1 .. n_bins |->
                        RatDivInt(RatAdd(Bin(b, n_bins), Bin(b - 1, n_bins)), 2)],
     mean_ranks |-> [b \in 1 .. n_bins |->
                       IF Mask(b_ranks, b, n_bins) # {}
                       THEN Mean(w_ranks, Mask(b_ranks, b, n_bins)) ELSE RatNaN],
     std_ranks |-> [b \in 1 .. n_bins |->
                       IF Mask(b_ranks, b, n_bins) # {}
                       THEN StdSquared(w_ranks, Mask(b_ranks, b, n_bins)) ELSE RatNaN]]

\* app.py lines 61-63: the statistics of the ranks run_simulation returned
CalculateRankStatistics ==
    /\ pc = "returned"
    /\ \E n_bins \in BinCounts : stats' = RankStatistics(bequest_ranks, wealth_ranks, n_bins)
    /\ pc' = "done"
    /\ UNCHANGED <<n_people, mpc_params, parent_wealth, parent_ranks, children,
                   will_get_bequest, death_ages, bequests, year, i, bequest_ranks,
                   wealth_ranks, n_added, n_draws>>

----------------------------------------------------------------------------

\* every population size, each year's draws at their median; a population of
\* one is run for every age its parent can die at
Next ==
    \/ NegativeSize
    \/ Setup(IF n_people = 1 THEN AllSetupDraws ELSE SetupDraws)
    \/ SimulateChild({LognormalMedian}, {RETURN_MEAN})
    \/ EmptyYear
    \/ FinalRankings
    \/ CalculateRankStatistics

Spec == Init /\ [][Next]_vars

\* one individual, at most MaxDraws of the yearly draws off their median
InitLife == Init /\ n_people = 1

NextLife ==
    \/ Setup(SetupDraws)
    \/ SimulateChild(LognormalDraws, NormalDraws)
    \/ FinalRankings
    \/ CalculateRankStatistics

SpecLife == InitLife /\ [][NextLife]_vars

----------------------------------------------------------------------------
(* properties *)

Last(h) == h[Len(h)]
Returned == pc \in {"returned", "done"}
InUnit(r) == r # RatNaN /\ RatLe(RatZero, r) /\ RatLe(r, <<1, 1>>)

\* the wealth child k holds when the call of its year t (1 .. N_YEARS) starts:
\* the wealth recorded after the year before, plus the bequest if it came in t
StartWealth(k, t) ==
    Add(children[k].wealth_history[t],
        IF CHILD_START_AGE + t - 1 = death_ages[k] THEN bequests[k] ELSE 0)

TotalIncome(k, t) ==
    Add(children[k].labor_income_history[t], children[k].capital_income_history[t])

BorrowingCap(k, t) ==
    Add(TotalIncome(k, t),
        IF Gt(StartWealth(k, t), 0)
        THEN Times(StartWealth(k, t), BORROWING_LIMIT_WEALTH_SHARE, 10) ELSE 0)

\* C1: the consumption recorded for any year of any person does not exceed
\* that year's total income plus max(wealth, 0) * BORROWING_LIMIT_WEALTH_SHARE,
\* wealth being the wealth at the start of the call, bequest included.
C1_ConsumptionCapped ==
    \A k \in DOMAIN children :
        \A t \in DOMAIN children[k].consumption_history :
            ~ Gt(children[k].consumption_history[t], BorrowingCap(k, t))

\* a year in which a person with positive wealth consumed more than its
\* income, up to the cap exactly
C1_Witness ==
    \E k \in DOMAIN children :
        \E t \in DOMAIN children[k].consumption_history :
            /\ Gt(StartWealth(k, t), 0)
            /\ IsFinite(children[k].consumption_history[t])
            /\ children[k].consumption_history[t] = BorrowingCap(k, t)
            /\ children[k].consumption_history[t] > TotalIncome(k, t)

\* C2: over a run, the bequest of a person is added to its wealth at most once.
C2_BequestAtMostOnce == \A k \in DOMAIN n_added : n_added[k] <= 1

\* the run is over and a bequest was added at the last age a parent can die at
C2_Witness ==
    /\ pc = "done"
    /\ \E k \in DOMAIN n_added : n_added[k] = 1 /\ death_ages[k] = BEQUEST_AGE_MAX

HistoryLengths ==
    \A k \in DOMAIN children :
        /\ Len(children[k].wealth_history) = Len(children[k].labor_income_history) + 1
        /\ Len(children[k].capital_income_history) = Len(children[k].labor_income_history)
        /\ Len(children[k].consumption_history) = Len(children[k].labor_income_history)

IsPrefix(g, h) == Len(g) <= Len(h) /\ \A t \in DOMAIN g : g[t] = h[t]

AppendOnly ==
    \A k \in DOMAIN children \cap DOMAIN children' :
        /\ IsPrefix(children[k].wealth_history, children'[k].wealth_history)
        /\ IsPrefix(children[k].labor_income_history, children'[k].labor_income_history)
        /\ IsPrefix(children[k].capital_income_history,
                    children'[k].capital_income_history)
        /\ IsPrefix(children[k].consumption_history, children'[k].consumption_history)

\* C3: every Person always has one more wealth entry than labor-income entries,
\* its labor-income, capital-income and consumption histories are equally long,
\* and a step only ever appends to a history.
C3_Histories == [] HistoryLengths /\ [][AppendOnly]_vars

\* a Person at the end of its 60 years: 61 wealth entries, 60 of each other kind
C3_Witness ==
    \E k \in DOMAIN children :
        /\ Len(children[k].wealth_history) = N_YEARS + 1
        /\ Len(children[k].consumption_history) = N_YEARS

\* C4: for a positive population size P (the parameters left at their
\* defaults), run_simulation returns P Persons and two rank arrays of length P
\* whose values are all defined numbers in [0,1].
C4_RanksInUnit ==
    (Returned /\ n_people >= 1 /\ mpc_params = None) =>
        /\ Len(children) = n_people
        /\ Len(bequest_ranks) = n_people
        /\ Len(wealth_ranks) = n_people
        /\ \A k \in 1 .. n_people : InUnit(bequest_ranks[k]) /\ InUnit(wealth_ranks[k])

\* C5: calculate_rank_statistics selects every individual whose bequest rank
\* lies in [0,1] for exactly one bin, rank 1.0 going to the last bin (stated
\* for the runs with the parameters left at their defaults).
C5_EveryRankInOneBin ==
    (pc = "done" /\ mpc_params = None) =>
        \A k \in DOMAIN bequest_ranks :
            InUnit(bequest_ranks[k]) =>
                /\ Cardinality({b \in DOMAIN stats.mask : k \in stats.mask[b]}) = 1
                /\ bequest_ranks[k] = <<1, 1>> => k \in stats.mask[stats.n_bins]

InvalidConfiguration ==
    \/ n_people <= 0
    \/ mpc_params # None /\ mpc_params[1].elasticity = -10
    \/ mpc_params # None /\ mpc_params[1].reference_income <= 0

\* C6: a run with elasticity -1, a reference income <= 0 or a population size
\* <= 0 is rejected before it starts: it creates no Person and simulates no year.
C6_InvalidRejected ==
    InvalidConfiguration => pc \in {"call", "raised"} /\ children = <<>>

\* twice the average rank of bequest k among the positive bequests
TwicePositiveRank(k) ==
    2 * Cardinality({j \in DOMAIN bequests : 0 < bequests[j] /\ bequests[j] < bequests[k]})
    + Cardinality({j \in DOMAIN bequests : bequests[j] = bequests[k]}) + 1

NPositive == Cardinality({j \in DOMAIN bequests : bequests[j] > 0})

\* C7: in the returned bequest_ranks a zero bequest has rank 0 and a positive
\* one has rank 0.4 + 0.6 r, r in (0,1] its normalized rank among the positive
\* bequests, so that the rank lies in (0.4, 1] and does not decrease as the
\* bequest grows; with no positive bequest all ranks are 0.
C7_BequestRanks ==
    Returned =>
        /\ Len(bequest_ranks) = Len(bequests)
        /\ \A k \in DOMAIN bequests :
              /\ bequests[k] = 0 => bequest_ranks[k] = RatZero
              /\ bequests[k] > 0 =>
                    /\ 0 < TwicePositiveRank(k) /\ TwicePositiveRank(k) <= 2 * NPositive
                    /\ bequest_ranks[k] # RatNaN
                    /\ bequest_ranks[k][1] * 20 * NPositive
                          = bequest_ranks[k][2] * (8 * NPositive + 6 * TwicePositiveRank(k))
                    /\ RatLt(<<4, 10>>, bequest_ranks[k])
                    /\ RatLe(bequest_ranks[k], <<1, 1>>)
        /\ \A j, k \in DOMAIN bequests :
              bequests[j] <= bequests[k] => RatLe(bequest_ranks[j], bequest_ranks[k])
        /\ NPositive = 0 => \A k \in DOMAIN bequests : bequest_ranks[k] = RatZero

\* ranks returned for a zero bequest and two different positive ones
C7_Witness ==
    /\ Returned
    /\ \E j, k, l \in DOMAIN bequests :
          /\ bequests[j] = 0 /\ 0 < bequests[k] /\ bequests[k] < bequests[l]
          /\ bequest_ranks[j] = RatZero
          /\ RatLt(bequest_ranks[k], bequest_ranks[l])

\* a pass of the inner loop changes the Person it is for and no other, and the
\* bequest schedule stays as it was drawn
OnlyOwnPerson ==
    (pc = "simulate" /\ pc' = "simulate") =>
        /\ \A k \in DOMAIN children : k # i => children'[k] = children[k]
        /\ DOMAIN children' = DOMAIN children
        /\ will_get_bequest' = will_get_bequest
        /\ death_ages' = death_ages
        /\ bequests' = bequests

\* at the start of a year, the passes for two different persons give the same
\* list of Persons in either order, whatever return is drawn for the first
OrderIndependent ==
    (pc = "simulate" /\ year < N_YEARS /\ i = 1) =>
        \A j, k \in DOMAIN children :
            j < k =>
                \A normal \in NormalDraws :
                    UpdateChild(UpdateChild(children, j, LognormalMedian, normal),
                                k, LognormalMedian, RETURN_MEAN)
                    = UpdateChild(UpdateChild(children, k, LognormalMedian, RETURN_MEAN),
                                  j, LognormalMedian, normal)

\* C8: the update of person i in a year changes only person i and leaves the
\* other persons and the bequest schedule alone, so the persons of a year can
\* be processed in any order.
C8_Frame == [][OnlyOwnPerson]_vars /\ [] OrderIndependent

\* the second person of a population has been updated in a year in which the
\* first received its bequest
C8_Witness ==
    /\ pc = "simulate"
    /\ n_people >= 2
    /\ i = 1
    /\ year > 0
    /\ n_added[1] = 1
    /\ Len(children[2].wealth_history) = year + 1

\* C9: every entry of every wealth history is >= 0 (the parameters left at
\* their defaults).
C9_WealthNonNegative ==
    mpc_params = None =>
        \A k \in DOMAIN children :
            \A t \in DOMAIN children[k].wealth_history :
                Ge(children[k].wealth_history[t], 0)

\* C10: when the 60 years are over, the bequest of every person has been added
\* to its wealth exactly once.
C10_BequestDelivered == Returned => \A k \in DOMAIN n_added : n_added[k] = 1

\* the run is over for a population in which one parent died at the first and
\* one at the last possible age
C10_Witness ==
    /\ Returned
    /\ \E j, k \in DOMAIN death_ages :
          /\ death_ages[j] = BEQUEST_AGE_MIN /\ death_ages[k] = BEQUEST_AGE_MAX
          /\ n_added[j] = 1 /\ n_added[k] = 1

====
